---- MODULE Spec2Model ----
(***************************************************************************)
(* The host <-> worker protocol of the BYOD backtesting desktop shell:     *)
(* the preload boundary (electronAPI.invoke / pingPython), the host's IPC  *)
(* handlers that need the worker, and PythonService (start, sendToPython,  *)
(* stop, the 'close' handler, the stdout handler and its two timers).      *)
(***************************************************************************)
EXTENDS Integers, Sequences, FiniteSets, TLC

\* ------------------------------------------------------------- bounds
MaxCalls == 2        \* boundary calls made in one run
MaxReplies == 1      \* response lines the worker prints in one run
MaxStops == 1        \* stop() calls that find a handle in one run

\* ------------------------------------------------- program constants
StartWaitMs == 1000  \* startup wait of start()
MockDelayMs == 100   \* delay of sendToPython's placeholder response

\* One start() at startup and at most one per boundary call: the pids spawn()
\* can return in one run.
Pids == 1..(MaxCalls + 1)
Null == 0            \* this.pythonProcess = null
Undefined == [undefined |-> TRUE]   \* a missing argument

\* ---------------------------------------------------------- preload
\* The whitelist with the name of a handler the host registers added to it.
validChannelsWithPing ==
  { "health-check", "open-file-dialog", "preview-file", "import-data",
    "run-backtest", "get-strategies", "save-strategy", "get-price-data",
    "get-backtest-results", "ping-python" }

\* The invoke whitelist of the preload script.
validChannels ==
  { "health-check", "open-file-dialog", "preview-file", "import-data",
    "run-backtest", "get-strategies", "save-strategy", "get-price-data",
    "get-backtest-results" }

\* Channels for which the host registers a handler with ipcMain.handle.
registeredHandlers ==
  { "health-check", "ping", "ping-python", "open-file-dialog",
    "preview-file", "import-data" }

\* Channel names the renderer passes to invoke in this model: one that is
\* whitelisted and handled, one whitelisted without a handler, and one
\* handled but not whitelisted.
ChannelInputs ==
  { "health-check", "run-backtest", "ping-python" }

\* Comma-separated files of one to twelve lines: the n-th has a header and
\* n - 1 rows, an empty line after the header and an empty last line.
RowFiles ==
  << "lines01.csv", "lines02.csv", "lines03.csv", "lines04.csv",
     "lines05.csv", "lines06.csv", "lines07.csv", "lines08.csv",
     "lines09.csv", "lines10.csv", "lines11.csv", "lines12.csv" >>

Letters == << "a", "b", "c", "d", "e", "f", "g", "h", "i", "j", "k", "l" >>

RowFile(n) ==
  << << <<"d">>, <<"p">> >>, << <<>> >> >>
    \o [k \in 1..(n - 1) |-> << <<Letters[k]>>, <<"v", Letters[k]>> >>]
    \o << << <<>> >> >>

\* The files on disk, as readFileSync and split('\n') give them: the lines of
\* a file, a line being its comma-separated fields and a field its characters.
\* empty.csv holds blank lines only; data.csv a header and two rows, with
\* spaces and quotes around some fields, a short row and an empty last line.
Files ==
  [ f \in { "empty.csv", "data.csv" } \cup { RowFiles[n] : n \in DOMAIN RowFiles } |->
      IF f = "empty.csv"
      THEN << << <<>> >>, << <<" ", " ">> >> >>
      ELSE IF f = "data.csv"
      THEN << << <<"d">>, <<" ", "\"", "p", "\"">> >>,
              << <<"1">>, <<"\"", "7", "\"", " ">> >>,
              << <<>> >>,
              << <<"2">> >>,
              << <<>> >> >>
      ELSE RowFile(CHOOSE n \in DOMAIN RowFiles : RowFiles[n] = f) ]

\* Files that exist on disk, and the payloads the renderer passes to
\* import-data.
ExistingFiles == DOMAIN Files
ImportInputs ==
  { [filePath |-> "missing.csv", symbol |-> "AAPL"],
    [filePath |-> "data.csv", symbol |-> "AAPL"] }

DataInputs(channel) ==
  IF channel = "import-data" THEN ImportInputs ELSE { Undefined }

\* new Error(`Invalid channel: ${channel}`), thrown by the preload script.
InvalidChannel(channel) == [error |-> <<"Invalid channel", channel>>]
\* The rejection of ipcRenderer.invoke on a channel without a handler.
NoHandler(channel) == [error |-> <<"No handler registered", channel>>]

\* ----------------------------------------------------------- worker
\* What the worker may print as the payload of a response line: a record
\* without a correlation identifier, and one with an identifier that no call
\* of the host carries.
WorkerPayloads ==
  { [status |-> "ok", result |-> "pong"],
    [id |-> 7, status |-> "error", result |-> "failed"] }

VARIABLES
  pythonProcess,  \* PythonService.pythonProcess: Null or the pid of the handle
  proc,           \* pid -> "none" | "live" | "exited" | "closed"
  kills,          \* pid -> number of kill() signals sent to it
  stdin,          \* pid -> sequence of request frames written to its stdin
  stdout,         \* response lines the stdout 'data' handler has received
  starts,         \* start() invocations, in call order
  calls,          \* sendToPython() invocations, in call order
  timers,         \* armed setTimeout callbacks, in arming order
  ipc,            \* calls made through the preload API, in call order
  quit,           \* TRUE once app.quit() has ended the host process
  db,             \* the storage file health-check looks at: exists, size
  wire,           \* the characters the worker has printed on its stdout
  decoded,        \* the chunks of wire the 'data' handler has handled
  subs,           \* electronAPI.on() calls, in call order
  listeners,      \* ipcRenderer's listeners, in registration order
  emitted,        \* the registrations the last event invoked, in order
  request,        \* a request object, its strings as characters
  encoded         \* the characters written to stdin for request

\* The state outside the host process: the file system, the worker's output
\* stream and the renderer's preload script.
outside == <<db, wire, decoded, subs, listeners, emitted, request, encoded>>

\* The state outside PythonService and the boundary calls.
rest == <<quit, outside>>

vars == <<pythonProcess, proc, kills, stdin, stdout, starts, calls, timers, ipc,
          rest>>

service == <<pythonProcess, proc, kills, stdin, stdout, starts, calls, timers>>

\* ------------------------------------------------------------ helpers
Remove(seq, k) == SubSeq(seq, 1, k - 1) \o SubSeq(seq, k + 1, Len(seq))

\* The pid the next spawn() returns.
NextPid == Cardinality({p \in Pids : proc[p] # "none"}) + 1

\* The service and the boundary after construction.
ServiceInit ==
  /\ pythonProcess = Null
  /\ proc = [p \in Pids |-> "none"]
  /\ kills = [p \in Pids |-> 0]
  /\ stdin = [p \in Pids |-> <<>>]
  /\ stdout = {}
  /\ starts = <<>>
  /\ calls = <<>>
  /\ timers = <<>>
  /\ ipc = <<>>
  /\ quit = FALSE

\* The storage file: absent, present and empty, present with content.
DbStates ==
  { [exists |-> FALSE, size |-> 0], [exists |-> TRUE, size |-> 0],
    [exists |-> TRUE, size |-> 4096] }

\* Nothing printed by the worker yet, nothing decoded.
CodecInit == wire = <<>> /\ decoded = <<>>

\* No on() call made yet.
PreloadInit ==
  /\ subs = <<>> /\ listeners = <<>> /\ emitted = <<>>
  /\ request = Undefined /\ encoded = <<>>

\* A first run: the storage file is there and empty.
Init ==
  /\ ServiceInit
  /\ db = [exists |-> TRUE, size |-> 0]
  /\ CodecInit
  /\ PreloadInit

\* A step of the host process: it runs only while the host has not quit, and
\* a step of the service or of a boundary call leaves the rest alone.
HostTurn == quit = FALSE /\ UNCHANGED rest

\* ------------------------------------------------------ PythonService
\* The request object sendToPython serialises: action, data, timestamp (the
\* wall-clock reading of new Date(), one abstract value here).
Now == "now"

Frame(action, data) == [action |-> action, data |-> data, timestamp |-> Now]

\* A sendToPython that resolves with what the worker printed, when it did.
ResponseFromStdout(action) ==
  IF stdout # {}
  THEN (CHOOSE r \in stdout : TRUE).payload
  ELSE [status |-> "ok", message |-> "Request sent to Python backend",
        action |-> action, python_alive |-> TRUE]

\* The placeholder sendToPython resolves with.
MockResponse(action) ==
  [status |-> "ok", message |-> "Request sent to Python backend",
   action |-> action, python_alive |-> TRUE]

StartFailed == [error |-> "Failed to start Python process"]

\* A sendToPython() invocation made by boundary call i. state is awaitStart
\* (inside `await this.start()`), pending (request written, placeholder timer
\* armed), resolved or rejected; settled counts its terminal events; pid and
\* frame say where its request was written.
NewCall(i, action, data) ==
  [ipc |-> i, action |-> action, data |-> data, state |-> "awaitStart",
   result |-> Undefined, settled |-> 0, pid |-> Null, frame |-> 0]

\* start(): spawn a process, assign it to the handle, register the handlers
\* and arm the startup timer. c is the sendToPython call awaiting it (0 for the
\* start() of app.whenReady).
StartBody(c) ==
  /\ NextPid \in Pids
  /\ pythonProcess' = NextPid
  /\ proc' = [proc EXCEPT ![NextPid] = "live"]
  /\ starts' = Append(starts, [pid |-> NextPid, state |-> "waiting", call |-> c])
  /\ timers' = Append(timers, [kind |-> "start", idx |-> Len(starts) + 1])

\* A startup timer callback that resolves but lacks the reject branch.
StartOutcomeNoReject(handle) == IF handle # Null THEN "resolved" ELSE "waiting"

\* The startup timer's callback: resolve if the handle is set, else reject.
StartOutcome(handle) == IF handle # Null THEN "resolved" ELSE "rejected"

\* The 'close' handler of process p: the handle it leaves.
CloseHandle(p, handle) == Null

\* stop(): the signals sent and the handle left.
StopKills(handle, k) ==
  IF handle # Null THEN [k EXCEPT ![handle] = @ + 1] ELSE k

\* A stop() that signals the worker and forgets to clear the handle.
StopHandleKept(handle) == handle

StopHandle(handle) == Null

\* this.pythonProcess.stdin.write(JSON.stringify(request) + '\n') on handle h.
Written(h, action, data) ==
  [stdin EXCEPT ![h] = Append(@, Frame(action, data))]

\* The call record once its request is written to handle h.
Sent(call, h) ==
  [call EXCEPT !.state = "pending", !.pid = h, !.frame = Len(stdin[h]) + 1]

\* sendToPython(action, data) up to its first suspension, made by boundary
\* call i: start the worker when the handle is null, else write at once.
SendToPython(i, action, data) ==
  LET c == Len(calls) + 1 IN
  IF pythonProcess = Null
  THEN /\ StartBody(c)
       /\ calls' = Append(calls, NewCall(i, action, data))
       /\ UNCHANGED stdin
  ELSE /\ stdin' = Written(pythonProcess, action, data)
       /\ calls' = Append(calls, Sent(NewCall(i, action, data), pythonProcess))
       /\ timers' = Append(timers, [kind |-> "mock", idx |-> c])
       /\ UNCHANGED <<pythonProcess, proc, starts>>

\* Timers: setTimeout callbacks run in deadline order, so a timer may fire
\* only when no timer armed before it has a delay that is not longer.
Delay(t) == IF t.kind = "start" THEN StartWaitMs ELSE MockDelayMs

CanFire(k) == \A j \in 1..(k - 1) : Delay(timers[j]) > Delay(timers[k])

\* One terminal event of call c's promise.
Settle(c, st, value) ==
  [calls EXCEPT ![c].state = st, ![c].result = value, ![c].settled = @ + 1]

\* A 'data' handler that settles the calls in flight with whatever frame the
\* worker printed.
OnDataSettlesPending(cs, payload) ==
  [c \in DOMAIN cs |->
     IF cs[c].state = "pending"
     THEN [cs[c] EXCEPT !.state = "resolved", !.result = payload, !.settled = @ + 1]
     ELSE cs[c]]

\* The stdout 'data' handler: what it makes of the sendToPython() calls when
\* it has parsed a line (it logs the line and does nothing else).
OnData(cs, payload) == cs

\* ------------------------------------------------------ host handlers
\* A health-check that takes an empty storage file for a missing one.
DatabaseStatusBySize(file) ==
  IF file.exists /\ file.size > 0 THEN "connected" ELSE "created"

\* dbExists ? 'connected' : 'created'
DatabaseStatus(file) == IF file.exists THEN "connected" ELSE "created"

\* What each handler returns once its sendToPython() call has settled: every
\* handler catches a rejection and returns an object carrying its message.
\* Of the health-check result, version and database_info.path are left out:
\* they are the same in every result.
HealthCheckResult(st, value) ==
  IF st = "resolved"
  THEN [status |-> "ok", database |-> DatabaseStatus(db), timestamp |-> Now,
        python_backend |-> value,
        electron_main |-> [ok |-> TRUE, from |-> "main"],
        database_info |-> [exists |-> db.exists,
                           size |-> IF db.exists THEN db.size ELSE 0]]
  ELSE [status |-> "error", timestamp |-> Now, error |-> value.error]

PingPythonResult(st, value) ==
  IF st = "resolved" THEN value ELSE [error |-> value.error]

ImportDataResult(st, value, data) ==
  IF st = "resolved"
  THEN IF "error" \in DOMAIN value
       THEN [error |-> value.error]
       ELSE [success |-> TRUE, rowsImported |-> 0, symbol |-> data.symbol]
  ELSE [error |-> value.error]

HandlerResult(channel, data, st, value) ==
  CASE channel = "health-check" -> HealthCheckResult(st, value)
    [] channel = "ping-python" -> PingPythonResult(st, value)
    [] channel = "import-data" -> ImportDataResult(st, value, data)

\* A handler without its catch clause: what it throws rejects its promise.
HandlerStateUncaught(result) ==
  IF "error" \in DOMAIN result THEN "rejected" ELSE "resolved"

\* The state of a handler's promise when its body has produced result: the
\* body is one try block whose catch clause returns the error object.
HandlerState(result) == "resolved"

\* The handler of boundary call i resumes after its awaited call settled.
Resume(i, st, value) ==
  LET result == HandlerResult(ipc[i].channel, ipc[i].data, st, value)
  IN [ipc EXCEPT ![i].state = HandlerState(result), ![i].result = result]

\* A boundary call: the API used, the channel, the argument, and its outcome:
\* thrown (by the preload script), pending, resolved or rejected.
Boundary(api, channel, data, st, result) ==
  [api |-> api, channel |-> channel, data |-> data, state |-> st,
   result |-> result]

\* Input checks that leave out existsSync.
ImportDataCheckNoExists(data) ==
  IF data = Undefined THEN [error |-> "Cannot destructure property of undefined"]
  ELSE IF data.filePath = "" THEN [error |-> "No file path provided"]
  ELSE Undefined

\* The input checks of the import-data handler; Undefined when they pass.
ImportDataCheck(data) ==
  IF data = Undefined THEN [error |-> "Cannot destructure property of undefined"]
  ELSE IF data.filePath = "" THEN [error |-> "No file path provided"]
  ELSE IF data.filePath \notin ExistingFiles THEN [error |-> "File does not exist"]
  ELSE Undefined

\* What showOpenDialog does, and whether there is a window to show it in.
DialogOutcomes == { "noWindow", "failed", "canceled", "noPaths", "picked" }

\* The open-file-dialog handler.
OpenFileDialogResult(outcome) ==
  CASE outcome = "noWindow" ->
         [canceled |-> FALSE, error |-> "Main window not available"]
    [] outcome = "failed" -> [canceled |-> FALSE, error |-> "dialog failed"]
    [] outcome = "canceled" -> [canceled |-> TRUE]
    [] outcome = "noPaths" -> [canceled |-> TRUE]
    [] outcome = "picked" -> [canceled |-> FALSE, filePath |-> "data.csv"]

\* String.prototype.trim() and replace(/"/g, '') on a field.
Space == " "
Quote == "\""

RECURSIVE TrimLeft(_)
TrimLeft(t) == IF t # <<>> /\ Head(t) = Space THEN TrimLeft(Tail(t)) ELSE t

RECURSIVE TrimRight(_)
TrimRight(t) ==
  IF t # <<>> /\ t[Len(t)] = Space
  THEN TrimRight(SubSeq(t, 1, Len(t) - 1)) ELSE t

Trim(t) == TrimRight(TrimLeft(t))

NotQuote(ch) == ch # Quote

CleanField(t) == SelectSeq(Trim(t), NotQuote)

\* A preview that counts blank lines as rows.
KeepsEveryLine(line) == TRUE

\* filter(line => line.trim()): a line is kept unless it is all whitespace.
NotBlank(line) == ~(Len(line) = 1 /\ Trim(line[1]) = <<>>)

CleanLine(line) == [i \in 1..Len(line) |-> CleanField(line[i])]

\* columns.forEach((col, index) => row[col] = values[index] || '')
Row(columns, values) ==
  [col \in { columns[i] : i \in 1..Len(columns) } |->
     LET last == CHOOSE i \in 1..Len(columns) :
                   /\ columns[i] = col
                   /\ \A j \in 1..Len(columns) : columns[j] = col => j <= i
     IN IF last <= Len(values) THEN values[last] ELSE <<>>]

MaxPreviewRows == 10

Min(a, b) == IF a <= b THEN a ELSE b

\* Input checks that leave out existsSync.
PreviewCheckNoExists(data) ==
  IF data = Undefined THEN [error |-> "Cannot destructure property of undefined"]
  ELSE IF "filePath" \notin DOMAIN data \/ data.filePath = ""
  THEN [error |-> "No file path provided"]
  ELSE Undefined

\* The input checks of the preview-file handler; Undefined when they pass.
PreviewCheck(data) ==
  IF data = Undefined THEN [error |-> "Cannot destructure property of undefined"]
  ELSE IF "filePath" \notin DOMAIN data \/ data.filePath = ""
  THEN [error |-> "No file path provided"]
  ELSE IF data.filePath \notin ExistingFiles THEN [error |-> "File does not exist"]
  ELSE Undefined

\* The paths the handler calls readFileSync on.
PreviewReads(data) ==
  IF PreviewCheck(data) = Undefined THEN { data.filePath } ELSE {}

\* The preview-file handler; readFileSync throws on a path to no file.
PreviewFile(data) ==
  IF PreviewCheck(data) # Undefined THEN PreviewCheck(data)
  ELSE IF data.filePath \notin ExistingFiles
  THEN [error |-> "ENOENT: no such file or directory"]
  ELSE LET lines == SelectSeq(Files[data.filePath], NotBlank)
       IN IF lines = <<>> THEN [error |-> "File is empty"]
          ELSE LET columns == CleanLine(lines[1])
               IN [preview |-> [i \in 1..Min(MaxPreviewRows, Len(lines) - 1) |->
                                  Row(columns, CleanLine(lines[i + 1]))],
                   columns |-> columns,
                   rows_total |-> Len(lines) - 1]

\* ipcRenderer.invoke(channel, data): the host runs the channel's handler, or
\* rejects when none is registered.
Dispatch(api, channel, data) ==
  LET i == Len(ipc) + 1 IN
  IF channel \notin registeredHandlers
  THEN /\ ipc' = Append(ipc, Boundary(api, channel, data, "rejected", NoHandler(channel)))
       /\ UNCHANGED service
  ELSE IF channel = "import-data" /\ ImportDataCheck(data) # Undefined
  THEN /\ ipc' = Append(ipc, Boundary(api, channel, data,
                                      HandlerState(ImportDataCheck(data)),
                                      ImportDataCheck(data)))
       /\ UNCHANGED service
  ELSE IF channel = "open-file-dialog"
  THEN /\ \E outcome \in DialogOutcomes :
            ipc' = Append(ipc, Boundary(api, channel, data,
                                        HandlerState(OpenFileDialogResult(outcome)),
                                        OpenFileDialogResult(outcome)))
       /\ UNCHANGED service
  ELSE IF channel = "preview-file"
  THEN /\ ipc' = Append(ipc, Boundary(api, channel, data,
                                      HandlerState(PreviewFile(data)),
                                      PreviewFile(data)))
       /\ UNCHANGED service
  ELSE /\ ipc' = Append(ipc, Boundary(api, channel, data, "pending", Undefined))
       /\ CASE channel = "health-check" -> SendToPython(i, "health-check", Undefined)
            [] channel = "ping-python" -> SendToPython(i, "ping", Undefined)
            [] channel = "import-data" ->
                 SendToPython(i, "import-data",
                              [file_path |-> data.filePath, symbol |-> data.symbol])
       /\ UNCHANGED <<kills, stdout>>

\* ------------------------------------------------------------ actions
\* app.whenReady(): the host awaits the first start(), catches its failure
\* and only then creates the window, so the renderer calls the preload API
\* only after that start() has settled.
WindowCreated == Len(starts) >= 1 /\ starts[1].state # "waiting"

\* electronAPI.invoke(channel, data)
Invoke(channel, data) ==
  /\ HostTurn
  /\ WindowCreated
  /\ Len(ipc) < MaxCalls
  /\ IF channel \in validChannels
     THEN Dispatch("invoke", channel, data)
     ELSE /\ ipc' = Append(ipc, Boundary("invoke", channel, data, "thrown",
                                         InvalidChannel(channel)))
          /\ UNCHANGED service

\* electronAPI.pingPython(): the one way to the ping-python handler (not part
\* of Next: it acts on the service as invoke('health-check') does).
PingPython ==
  /\ HostTurn
  /\ WindowCreated
  /\ Len(ipc) < MaxCalls
  /\ Dispatch("pingPython", "ping-python", Undefined)

\* await pythonService.start() in app.whenReady
AppReady ==
  /\ HostTurn
  /\ starts = <<>>
  /\ StartBody(0)
  /\ UNCHANGED <<kills, stdin, stdout, calls, ipc>>

\* pythonService.stop()
StopCall ==
  /\ HostTurn
  /\ pythonProcess # Null => Cardinality({p \in Pids : kills[p] > 0}) < MaxStops
  /\ kills' = StopKills(pythonProcess, kills)
  /\ pythonProcess' = StopHandle(pythonProcess)
  /\ UNCHANGED <<proc, stdin, stdout, starts, calls, timers, ipc>>

\* The worker process p ends (by itself, or after a signal).
ProcessExit(p) ==
  /\ proc[p] = "live"
  /\ proc' = [proc EXCEPT ![p] = "exited"]
  /\ UNCHANGED <<pythonProcess, kills, stdin, stdout, starts, calls, timers, ipc>>
  /\ UNCHANGED rest

\* The 'close' event of process p reaches the host.
CloseEvent(p) ==
  /\ HostTurn
  /\ proc[p] = "exited"
  /\ proc' = [proc EXCEPT ![p] = "closed"]
  /\ pythonProcess' = CloseHandle(p, pythonProcess)
  /\ UNCHANGED <<kills, stdin, stdout, starts, calls, timers, ipc>>

\* The worker p answers its k-th request with one line on stdout; the 'data'
\* handler parses and logs it.
WorkerRespond(p, k, payload) ==
  /\ HostTurn
  /\ proc[p] = "live"
  /\ k \in 1..Len(stdin[p])
  /\ Cardinality(stdout) < MaxReplies
  /\ ~ \E r \in stdout : r.pid = p /\ r.req = k
  /\ stdout' = stdout \cup {[pid |-> p, req |-> k, payload |-> payload]}
  /\ calls' = OnData(calls, payload)
  /\ UNCHANGED <<pythonProcess, proc, kills, stdin, starts, timers, ipc>>

\* The startup timer of a start() fires; an awaiting sendToPython() continues
\* in the same turn of the event loop.
StartTimerFire(k) ==
  /\ HostTurn
  /\ k \in 1..Len(timers) /\ timers[k].kind = "start" /\ CanFire(k)
  /\ LET s == timers[k].idx
         c == starts[s].call
         out == StartOutcome(pythonProcess)
     IN /\ starts' = [starts EXCEPT ![s].state = out]
        /\ IF c # 0 /\ out = "resolved"
           THEN /\ stdin' = Written(pythonProcess, calls[c].action, calls[c].data)
                /\ calls' = [calls EXCEPT ![c] = Sent(@, pythonProcess)]
                /\ timers' = Append(Remove(timers, k), [kind |-> "mock", idx |-> c])
                /\ UNCHANGED ipc
           ELSE IF c # 0 /\ out = "rejected"
           THEN /\ calls' = Settle(c, "rejected", StartFailed)
                /\ ipc' = Resume(calls[c].ipc, "rejected", StartFailed)
                /\ timers' = Remove(timers, k)
                /\ UNCHANGED stdin
           ELSE /\ timers' = Remove(timers, k)
                /\ UNCHANGED <<stdin, calls, ipc>>
  /\ UNCHANGED <<pythonProcess, proc, kills, stdout>>

\* The placeholder timer of a sendToPython() call fires.
MockTimerFire(k) ==
  /\ HostTurn
  /\ k \in 1..Len(timers) /\ timers[k].kind = "mock" /\ CanFire(k)
  /\ LET c == timers[k].idx
         value == MockResponse(calls[c].action)
     IN /\ calls' = Settle(c, "resolved", value)
        /\ ipc' = Resume(calls[c].ipc, "resolved", value)
  /\ timers' = Remove(timers, k)
  /\ UNCHANGED <<pythonProcess, proc, kills, stdin, stdout, starts>>

Next ==
  \/ \E ch \in ChannelInputs : \E d \in DataInputs(ch) : Invoke(ch, d)
  \/ AppReady
  \/ StopCall
  \/ \E p \in Pids : ProcessExit(p)
  \/ \E p \in Pids : CloseEvent(p)
  \/ \E p \in Pids : \E k \in 1..MaxCalls : \E w \in WorkerPayloads :
       WorkerRespond(p, k, w)
  \/ \E k \in 1..(MaxCalls + 1) : StartTimerFire(k)
  \/ \E k \in 1..(MaxCalls + 1) : MockTimerFire(k)

Spec == Init /\ [][Next]_vars

\* ----------------------------------------------------------- shutdown
Platforms == { "darwin", "linux" }

\* app.on('window-all-closed'): off macOS the host calls app.quit(); nothing
\* here or elsewhere in the host calls pythonService.stop().
WindowAllClosed(platform) ==
  /\ quit = FALSE
  /\ WindowCreated
  /\ quit' = (platform # "darwin")
  /\ UNCHANGED service
  /\ UNCHANGED ipc
  /\ UNCHANGED outside

\* The program with the host's shutdown.
ShutdownNext ==
  \/ Next
  \/ \E platform \in Platforms : WindowAllClosed(platform)

ShutdownSpec == Init /\ [][ShutdownNext]_vars

\* -------------------------------------------------------------- codec
\* The worker's stdout as the 'data' handler sees it: a stream of characters
\* that arrives in chunks of any size.
MaxLines == 3        \* lines the worker prints in one run

Newline == "\n"

\* The lines the worker prints, as characters: a structured record, and a line
\* that is none.
Lines == { <<"{", "}">>, <<"x">> }

\* Each line is followed by a newline.
RECURSIVE Stream(_)
Stream(ls) ==
  IF ls = <<>> THEN <<>> ELSE Head(ls) \o <<Newline>> \o Stream(Tail(ls))

Streams == { Stream(ls) : ls \in UNION { [1..n -> Lines] : n \in 0..MaxLines } }

NotNewline(ch) == ch # Newline

\* JSON.parse(text) succeeds: over these characters, when the text is the two
\* braces of a record with any whitespace around or between them.
JsonParses(text) == SelectSeq(text, NotNewline) = <<"{", "}">>

\* The body of the 'data' handler: the chunk is parsed whole, logged as a
\* response when it parses and as plain output when it does not.
HandleChunk(chunk) ==
  [kind |-> IF JsonParses(chunk) THEN "response" ELSE "output", text |-> chunk]

\* The characters of wire the handler has been given so far.
RECURSIVE Consumed(_)
Consumed(d) == IF d = <<>> THEN 0 ELSE Len(Head(d).text) + Consumed(Tail(d))

\* A 'data' event: the next n characters of the stream arrive as one chunk.
Data(n) ==
  /\ quit = FALSE
  /\ n \in 1..(Len(wire) - Consumed(decoded))
  /\ decoded' = Append(decoded,
                       HandleChunk(SubSeq(wire, Consumed(decoded) + 1,
                                          Consumed(decoded) + n)))
  /\ UNCHANGED <<service, ipc, quit, db, wire, subs, listeners, emitted,
               request, encoded>>

CodecNext == \E n \in 1..(3 * MaxLines) : Data(n)

\* The worker is about to print some stream of lines.
StreamInit ==
  /\ ServiceInit /\ PreloadInit /\ db = [exists |-> TRUE, size |-> 0]
  /\ wire \in Streams /\ decoded = <<>>

\* The 'data' handler on every stream of lines, split into chunks in every way.
CodecSpec == StreamInit /\ [][CodecNext]_vars

\* ----------------------------------------------------- preload events
MaxSubscriptions == 2   \* electronAPI.on() calls in one run
MaxDisposals == 2       \* calls of one disposer in one run

\* An event whitelist that also lets a call channel through.
validEventChannelsWithHealthCheck ==
  { "progress-update", "error-occurred", "health-check" }

\* The validChannels of electronAPI.on.
validEventChannels == { "progress-update", "error-occurred" }

\* Event names the renderer passes to on: the two whitelisted ones and a name
\* that is whitelisted for invoke only.
EventInputs == { "progress-update", "error-occurred", "health-check" }

\* The functions the renderer passes as callback.
Callbacks == { "f", "g" }

\* A bridge that hands the preload script the same object whenever the
\* renderer passes the same function.
ProxiedOnce(fn, n) == [fn |-> fn, proxy |-> 0]

\* The callback as the preload script receives it: the window is created with
\* contextIsolation and the API is exposed through contextBridge, which wraps
\* a function argument in a new proxy function on each call (n counts them).
Proxied(fn, n) == [fn |-> fn, proxy |-> n]

\* ipcRenderer.removeListener(channel, callback): removes the most recently
\* added instance of the callback from the channel's listeners, if any.
RemoveListener(ls, channel, callback) ==
  LET at == { i \in 1..Len(ls) :
                ls[i].channel = channel /\ ls[i].callback = callback }
  IN IF at = {} THEN ls
     ELSE Remove(ls, CHOOSE i \in at : \A j \in at : j <= i)

\* electronAPI.on(channel, callback); reg numbers the on() call that added a
\* listener.
On(channel, fn) ==
  LET n == Len(subs) + 1
      callback == Proxied(fn, n)
  IN /\ quit = FALSE
     /\ WindowCreated
     /\ n <= MaxSubscriptions
     /\ IF channel \in validEventChannels
        THEN /\ listeners' = Append(listeners, [channel |-> channel,
                                                callback |-> callback, reg |-> n])
             /\ subs' = Append(subs, [channel |-> channel, fn |-> fn,
                                      callback |-> callback, state |-> "returned",
                                      result |-> Undefined, disposed |-> 0])
        ELSE /\ subs' = Append(subs, [channel |-> channel, fn |-> fn,
                                      callback |-> callback, state |-> "thrown",
                                      result |-> InvalidChannel(channel),
                                      disposed |-> 0])
             /\ UNCHANGED listeners
     /\ UNCHANGED <<service, ipc, quit, db, wire, decoded, emitted,
               request, encoded>>

\* The renderer calls the disposer that on() call r returned.
Dispose(r) ==
  /\ quit = FALSE
  /\ r \in 1..Len(subs)
  /\ subs[r].state = "returned"
  /\ subs[r].disposed < MaxDisposals
  /\ listeners' = RemoveListener(listeners, subs[r].channel, subs[r].callback)
  /\ subs' = [subs EXCEPT ![r].disposed = @ + 1]
  /\ UNCHANGED <<service, ipc, quit, db, wire, decoded, emitted,
               request, encoded>>

\* An event on the channel reaches ipcRenderer, which calls the channel's
\* listeners in the order they were added.
Emit(channel) ==
  /\ quit = FALSE
  /\ WindowCreated
  /\ LET IsOn(l) == l.channel = channel
     IN emitted' = SelectSeq(listeners, IsOn)
  /\ UNCHANGED <<service, ipc, quit, db, wire, decoded, subs, listeners,
               request, encoded>>

PreloadNext ==
  \/ AppReady
  \/ \E k \in 1..(MaxCalls + 1) : StartTimerFire(k)
  \/ \E channel \in EventInputs : \E fn \in Callbacks : On(channel, fn)
  \/ \E r \in 1..MaxSubscriptions : Dispose(r)
  \/ \E channel \in validEventChannels : Emit(channel)

\* The event side of the preload API in a window the host has opened.
PreloadSpec == Init /\ [][PreloadNext]_vars

\* ------------------------------------------------------------ handlers
\* The arguments the renderer passes to a handler: none, and for the two file
\* handlers also an empty path, a path to no file and paths to files.
HandlerInputs ==
  { "health-check", "open-file-dialog", "preview-file", "import-data" }

PreviewInputs ==
  { Undefined, [filePath |-> ""], [filePath |-> "missing.csv"],
    [filePath |-> "empty.csv"], [filePath |-> "data.csv"] }

HandlerData(channel) ==
  CASE channel = "preview-file" -> PreviewInputs
    [] channel = "import-data" ->
         ImportInputs \cup { Undefined, [filePath |-> "", symbol |-> "AAPL"] }
    [] OTHER -> { Undefined }

\* Every handler the renderer can reach, with every argument, while the worker
\* starts, runs, exits and fails to start.
HandlersNext ==
  \/ \E ch \in HandlerInputs : \E d \in HandlerData(ch) : Invoke(ch, d)
  \/ PingPython
  \/ AppReady
  \/ \E p \in Pids : ProcessExit(p)
  \/ \E p \in Pids : CloseEvent(p)
  \/ \E k \in 1..(MaxCalls + 1) : StartTimerFire(k)
  \/ \E k \in 1..(MaxCalls + 1) : MockTimerFire(k)

\* ------------------------------------------------------------- preview
\* The arguments of preview-file: those of PreviewInputs and every file.
FileInputs == PreviewInputs \cup { [filePath |-> f] : f \in ExistingFiles }

\* preview-file on every file, in a window the host has opened.
PreviewNext ==
  \/ AppReady
  \/ \E k \in 1..(MaxCalls + 1) : StartTimerFire(k)
  \/ \E d \in FileInputs : Invoke("preview-file", d)

PreviewSpec == Init /\ [][PreviewNext]_vars

\* The host starts with the storage file in any of its states.
HandlersInit ==
  /\ ServiceInit /\ CodecInit /\ PreloadInit
  /\ db \in DbStates

HandlersSpec == HandlersInit /\ [][HandlersNext]_vars

\* ------------------------------------------------------------ encoder
\* The request line sendToPython writes, character by character.
MaxText == 2         \* characters of a string the renderer passes

Backslash == "\\"

\* The characters of the renderer's strings: a letter, and the characters
\* JSON.stringify has to escape.
TextChars == { "a", Newline, Quote, Backslash }

Texts == UNION { [1..n -> TextChars] : n \in 0..MaxText }

\* The action names the handlers pass, and the keys of the request object.
PingText == << "p", "i", "n", "g" >>
HealthCheckText == << "h", "e", "a", "l", "t", "h", "-", "c", "h", "e", "c", "k" >>
ImportDataText == << "i", "m", "p", "o", "r", "t", "-", "d", "a", "t", "a" >>
ActionKey == << "a", "c", "t", "i", "o", "n" >>
DataKey == << "d", "a", "t", "a" >>
TimestampKey == << "t", "i", "m", "e", "s", "t", "a", "m", "p" >>
FilePathKey == << "f", "i", "l", "e", "_", "p", "a", "t", "h" >>
SymbolKey == << "s", "y", "m", "b", "o", "l" >>

\* new Date().toISOString(), one abstract reading.
NowText == << "n", "o", "w" >>

\* The request objects sendToPython is called for: health-check and ping
\* without data, import-data with the path and symbol the renderer passed.
Requests ==
  { [action |-> PingText, data |-> Undefined],
    [action |-> HealthCheckText, data |-> Undefined] }
  \cup { [action |-> ImportDataText, data |-> [file_path |-> f, symbol |-> y]] :
           f \in Texts, y \in Texts }

\* A serialiser that copies the characters of a string as they are.
EscapeNothing(ch) == <<ch>>

\* JSON.stringify of one character of a string.
Escape(ch) ==
  CASE ch = Newline -> << Backslash, "n" >>
    [] ch = Quote -> << Backslash, Quote >>
    [] ch = Backslash -> << Backslash, Backslash >>
    [] OTHER -> <<ch>>

RECURSIVE Escaped(_)
Escaped(t) == IF t = <<>> THEN <<>> ELSE Escape(Head(t)) \o Escaped(Tail(t))

JsonString(t) == <<Quote>> \o Escaped(t) \o <<Quote>>

Member(key, text) == JsonString(key) \o <<":">> \o text

\* JSON.stringify(request): compact, keys in insertion order, an undefined
\* data left out.
Stringify(req) ==
  <<"{">> \o Member(ActionKey, JsonString(req.action))
    \o (IF req.data = Undefined THEN <<>>
        ELSE <<",">> \o Member(DataKey,
               <<"{">> \o Member(FilePathKey, JsonString(req.data.file_path))
                 \o <<",">> \o Member(SymbolKey, JsonString(req.data.symbol))
                 \o <<"}">>))
    \o <<",">> \o Member(TimestampKey, JsonString(NowText)) \o <<"}">>

\* stdin.write(JSON.stringify(request) + '\n')
WriteRequest ==
  /\ quit = FALSE
  /\ encoded = <<>>
  /\ encoded' = Stringify(request) \o <<Newline>>
  /\ UNCHANGED <<service, ipc, quit, db, wire, decoded, subs, listeners,
                 emitted, request>>

\* Some request is about to be written.
RequestInit ==
  /\ ServiceInit /\ CodecInit /\ db = [exists |-> TRUE, size |-> 0]
  /\ subs = <<>> /\ listeners = <<>> /\ emitted = <<>>
  /\ request \in Requests /\ encoded = <<>>

EncoderSpec == RequestInit /\ [][WriteRequest]_vars

Fairness ==
  /\ WF_vars(\E k \in 1..(MaxCalls + 1) : StartTimerFire(k))
  /\ WF_vars(\E k \in 1..(MaxCalls + 1) : MockTimerFire(k))

\* The event loop runs every armed timer's callback.
FairSpec == Spec /\ Fairness

\* ------------------------------------------------------------ claims
Calls == 1..Len(calls)
Ipcs == 1..Len(ipc)
Live == {p \in Pids : proc[p] = "live"}

\* The whitelist of invoke as the specification fixes it.
ListedChannels ==
  { "health-check", "open-file-dialog", "preview-file", "import-data",
    "run-backtest", "get-strategies", "save-strategy", "get-price-data",
    "get-backtest-results" }

\* C1: invoke with a channel outside the whitelist fails at once with the
\* invalid-channel error and changes nothing of the host: no handler runs, no
\* worker is spawned, nothing is registered or written.
C1_UnlistedInvokeHasNoEffect ==
  /\ [](\A i \in Ipcs :
          (ipc[i].api = "invoke" /\ ipc[i].channel \notin ListedChannels)
            => /\ ipc[i].state = "thrown"
               /\ ipc[i].result = InvalidChannel(ipc[i].channel))
  /\ [][\A ch \in ChannelInputs \ ListedChannels :
          (Len(ipc') = Len(ipc) + 1 /\ ipc'[Len(ipc')].channel = ch)
            => UNCHANGED service]_vars

C1_Witness ==
  \E i \in Ipcs :
    /\ ipc[i].state = "thrown" /\ ipc[i].channel \notin ListedChannels
    /\ pythonProcess # Null /\ proc[pythonProcess] = "live"

\* C2: at most one worker process spawned by PythonService is live at any
\* time; a start while a worker is live spawns no second process.
C2_AtMostOneLiveWorker == Cardinality(Live) <= 1

\* The response line the 'data' handler received for call c's request.
ResponsesTo(c) ==
  {r \in stdout : r.pid = calls[c].pid /\ r.req = calls[c].frame}

\* C3: each call resolves with the payload of the worker's response to its
\* own request, never with anything else, whatever order responses come in.
C3_ResolvesWithOwnResponse ==
  \A c \in Calls :
    calls[c].state = "resolved"
      => \E r \in ResponsesTo(c) : calls[c].result = r.payload

\* C4: a call that is pending when its worker exits unexpectedly is rejected
\* (WorkerTerminated); it never resolves successfully.
C4_PendingAtExitNeverResolves ==
  [][\A c \in Calls :
       (/\ calls[c].state = "pending"
        /\ proc[calls[c].pid] \in {"exited", "closed"}
        /\ kills[calls[c].pid] = 0)
         => calls'[c].state # "resolved"]_vars

\* C5: a call whose response has not arrived by its deadline is rejected
\* (RequestTimeout), not resolved, and is no longer pending.
C5_NoResponseMeansTimeout ==
  [][\A c \in Calls :
       (/\ calls[c].state = "pending"
        /\ calls'[c].state # "pending"
        /\ ResponsesTo(c) = {})
         => calls'[c].state = "rejected"]_vars

\* The request frames in the order of the calls that wrote them.
FramesWritten == {<<p, k>> \in Pids \X (1..MaxCalls) : k <= Len(stdin[p])}

\* C6: every request frame written carries a correlation identifier, and no
\* two frames ever written carry the same one.
C6_FramesCarryUniqueIds ==
  /\ \A f \in FramesWritten : "id" \in DOMAIN stdin[f[1]][f[2]]
  /\ \A f, g \in FramesWritten :
       f # g => stdin[f[1]][f[2]].id # stdin[g[1]][g[2]].id

\* C7: a call has at most one terminal event, is not pending after it, and no
\* call is still pending once the worker its request went to has exited.
C7_OneTerminalEventNoOrphans ==
  \A c \in Calls :
    /\ calls[c].settled <= 1
    /\ calls[c].state \in {"resolved", "rejected"} <=> calls[c].settled = 1
    /\ (calls[c].state = "pending" => proc[calls[c].pid] # "closed")

\* C9: a start() resolves only if the process it spawned itself is alive when
\* its startup wait ends.
C9_StartResolvesOnlyIfOwnProcessLive ==
  [][\A s \in 1..Len(starts) :
       (starts[s].state = "waiting" /\ starts'[s].state = "resolved")
         => proc[starts[s].pid] = "live"]_vars

Done(i) == i \in Ipcs /\ ipc[i].state \in {"resolved", "rejected"}

C10_StopSignalsOnceAndIsIdempotent ==
  /\ [](\A p \in Pids : kills[p] <= 1)
  /\ [][StopCall =>
          IF pythonProcess # Null
          THEN /\ kills' = [kills EXCEPT ![pythonProcess] = @ + 1]
               /\ pythonProcess' = Null
               /\ UNCHANGED <<proc, stdin, stdout, starts, calls, timers, ipc, rest>>
          ELSE UNCHANGED vars]_vars
  /\ [][(pythonProcess = Null /\ pythonProcess' = Null) => kills' = kills]_vars

C10_Witness ==
  \E p \in Pids : kills[p] = 1 /\ proc[p] = "live" /\ pythonProcess = Null

\* C11: a sendToPython() call made with no handle starts a fresh worker, and
\* its request is written to that worker, once the start has succeeded; if the
\* start fails the call fails and nothing is written.
C11_RequestGoesToTheWorkerItStarted ==
  /\ [][(Len(calls') = Len(calls) + 1 /\ pythonProcess = Null)
          => /\ pythonProcess' = NextPid /\ proc'[NextPid] = "live"
             /\ stdin' = stdin]_vars
  /\ [][\A s \in 1..Len(starts) :
          (starts[s].call # 0 /\ starts[s].state = "waiting"
             /\ starts'[s].state # "waiting")
            => IF starts'[s].state = "resolved"
               THEN /\ calls'[starts[s].call].state = "pending"
                    /\ calls'[starts[s].call].pid = starts[s].pid
               ELSE /\ calls'[starts[s].call].state = "rejected"
                    /\ stdin' = stdin]_vars

\* C12: once the host has quit, every worker it spawned that is still running
\* has been sent a termination signal.
C12_NoUnsignalledWorkerAfterQuit ==
  quit => \A p \in Pids : proc[p] = "live" => kills[p] > 0

\* The frame's correlation identifier is the one a pending call's request
\* carries.
Correlated(payload) ==
  \E c \in Calls :
    /\ calls[c].state = "pending"
    /\ "id" \in DOMAIN payload
    /\ "id" \in DOMAIN Frame(calls[c].action, calls[c].data)
    /\ payload.id = Frame(calls[c].action, calls[c].data).id

\* C13: a frame from the worker whose correlation identifier is absent or
\* belongs to no pending call resolves and rejects no call, leaves the handle
\* alone and does not end the host: the host only records it.
C13_UncorrelatedFrameOnlyLogged ==
  [][\A r \in stdout' \ stdout :
       ~Correlated(r.payload)
         => /\ calls' = calls /\ ipc' = ipc /\ pythonProcess' = pythonProcess
            /\ quit' = quit /\ quit = FALSE
            /\ UNCHANGED <<proc, kills, stdin, starts, timers>>]_vars

\* The worker answered the request of a call that is still pending with a
\* frame carrying an identifier, and the call is still pending.
C13_Witness ==
  \E c \in Calls : \E r \in ResponsesTo(c) :
    /\ calls[c].state = "pending"
    /\ "id" \in DOMAIN r.payload

\* The newline-terminated lines of a stream, in order.
RECURSIVE LinesOf(_, _)
LinesOf(text, line) ==
  IF text = <<>> THEN <<>>
  ELSE IF Head(text) = Newline
       THEN <<line \o <<Newline>>>> \o LinesOf(Tail(text), <<>>)
       ELSE LinesOf(Tail(text), Append(line, Head(text)))

IsRecordLine(line) == line = <<"{", "}", Newline>>
NotRecordLine(line) == ~IsRecordLine(line)
IsResponse(h) == h.kind = "response"
IsOutput(h) == h.kind = "output"

RECURSIVE Concat(_)
Concat(texts) == IF texts = <<>> THEN <<>> ELSE Head(texts) \o Concat(Tail(texts))

TextsOf(d) == [i \in 1..Len(d) |-> d[i].text]

\* C14: decoding is per line whatever the chunking: once the whole stream has
\* been delivered, the protocol frames handled are the lines that are records,
\* one frame per such line and in order, and the diagnostic text handled is
\* the other lines and nothing else; no valid frame is lost or misclassified.
C14_DecodingIsPerLine ==
  Consumed(decoded) = Len(wire)
    => /\ TextsOf(SelectSeq(decoded, IsResponse))
            = SelectSeq(LinesOf(wire, <<>>), IsRecordLine)
       /\ Concat(TextsOf(SelectSeq(decoded, IsOutput)))
            = Concat(SelectSeq(LinesOf(wire, <<>>), NotRecordLine))

\* The event whitelist as the specification fixes it.
ListedEvents == { "progress-update", "error-occurred" }

Subs == 1..Len(subs)

\* C15: on() with an event name outside the event whitelist fails with the
\* invalid-channel error invoke fails with, and registers no listener.
C15_UnlistedEventRegistersNothing ==
  /\ [](\A r \in Subs :
          subs[r].channel \notin ListedEvents
            => /\ subs[r].state = "thrown"
               /\ subs[r].result = InvalidChannel(subs[r].channel))
  /\ [](\A i \in 1..Len(listeners) : listeners[i].channel \in ListedEvents)
  /\ [][\A ch \in EventInputs \ ListedEvents :
          (Len(subs') = Len(subs) + 1 /\ subs'[Len(subs')].channel = ch)
            => listeners' = listeners]_vars

\* An on() call with an unlisted name has failed while a listener of an
\* earlier on() call is registered.
C15_Witness ==
  \E r \in Subs :
    /\ subs[r].state = "thrown" /\ subs[r].channel \notin ListedEvents
    /\ listeners # <<>>

\* The listeners that on() call r added and that are still registered.
ListenersOf(ls, r) == { i \in 1..Len(ls) : ls[i].reg = r }

NotOf(r, ls) == LET Other(l) == l.reg # r IN SelectSeq(ls, Other)

\* C16: on() with a whitelisted event name registers the callback and returns
\* a disposer; calling the disposer removes that registration and leaves the
\* registrations of other on() calls as they were, and an event invokes the
\* callbacks of exactly the registrations whose disposer was never called.
C16_DisposerRemovesOwnRegistration ==
  /\ [][\A ch \in ListedEvents :
          (Len(subs') = Len(subs) + 1 /\ subs'[Len(subs')].channel = ch)
            => /\ subs'[Len(subs')].state = "returned"
               /\ Len(listeners') = Len(listeners) + 1
               /\ SubSeq(listeners', 1, Len(listeners)) = listeners
               /\ listeners'[Len(listeners')].reg = Len(subs')
               /\ listeners'[Len(listeners')].channel = ch
               /\ listeners'[Len(listeners')].callback.fn = subs'[Len(subs')].fn]_vars
  /\ [][\A r \in Subs :
          subs'[r].disposed = subs[r].disposed + 1
            => listeners' = NotOf(r, listeners)]_vars
  /\ [](\A r \in Subs :
          ListenersOf(listeners, r) # {}
            <=> subs[r].state = "returned" /\ subs[r].disposed = 0)
  /\ [][\A ch \in ListedEvents :
          Emit(ch) =>
            \A r \in Subs :
              (\E i \in 1..Len(emitted') : emitted'[i].reg = r)
                <=> /\ subs[r].channel = ch /\ subs[r].state = "returned"
                    /\ subs[r].disposed = 0]_vars

\* The renderer registered the same function twice on one channel and called
\* the disposer of the first registration twice; the last event invoked the
\* second registration only.
C16_Witness ==
  \E r1, r2 \in Subs :
    /\ r1 < r2
    /\ subs[r1].fn = subs[r2].fn /\ subs[r1].channel = subs[r2].channel
    /\ subs[r1].disposed = 2 /\ subs[r2].disposed = 0
    /\ Len(emitted) = 1 /\ emitted[1].reg = r2

\* The channels with a handler that the preload API reaches.
HandlerChannels ==
  { "health-check", "ping-python", "open-file-dialog", "preview-file",
    "import-data" }

\* The success payload of each handler.
IsSuccess(channel, result) ==
  /\ "error" \notin DOMAIN result
  /\ CASE channel = "health-check" -> result.status = "ok"
       [] channel = "ping-python" -> result.status = "ok"
       [] channel = "open-file-dialog" -> "canceled" \in DOMAIN result
       [] channel = "preview-file" ->
            { "preview", "columns", "rows_total" } \subseteq DOMAIN result
       [] channel = "import-data" -> result.success

\* C17: every handler's promise resolves, whatever its input, with its
\* success payload or with an object carrying an error message; none is
\* rejected.
C17_HandlersAlwaysResolve ==
  \A i \in Ipcs :
    (ipc[i].channel \in HandlerChannels /\ ipc[i].state \notin {"thrown", "pending"})
      => /\ ipc[i].state = "resolved"
         /\ \/ IsSuccess(ipc[i].channel, ipc[i].result)
            \/ /\ "error" \in DOMAIN ipc[i].result
               /\ ipc[i].result.error \in STRING

\* preview-file or import-data was called without data and health-check was
\* called when the worker could not be started; both calls have completed.
C17_Witness ==
  \E i, j \in Ipcs :
    /\ ipc[i].channel \in {"preview-file", "import-data"}
    /\ ipc[i].data = Undefined /\ Done(i)
    /\ ipc[j].channel = "health-check" /\ Done(j)
    /\ \E c \in Calls : calls[c].ipc = j /\ calls[c].state = "rejected"

\* C18: a boundary call that needs the worker is rejected, not resolved with
\* a payload, when the start() it waited for failed.
C18_StartFailureRejectsTheCall ==
  \A i \in Ipcs : \A c \in Calls :
    (calls[c].ipc = i /\ calls[c].state = "rejected" /\ calls[c].result = StartFailed)
      => ipc[i].state = "rejected"

\* Boundary call i completes in this step and the worker its request went to
\* is live.
CompletesWithLiveWorker(i) ==
  /\ ipc[i].state = "pending" /\ ipc'[i].state # "pending"
  /\ \E c \in Calls :
       calls[c].ipc = i /\ calls[c].pid # Null /\ proc[calls[c].pid] = "live"

\* C19: health-check with a live worker returns status 'ok' and no error
\* field, database 'connected' exactly when the storage file exists and
\* 'created' otherwise, database_info.exists as the file exists and
\* database_info.size the file's size, 0 without a file.
C19_HealthCheckReportsStorage ==
  [][\A i \in Ipcs :
       (ipc[i].channel = "health-check" /\ CompletesWithLiveWorker(i))
         => /\ ipc'[i].state = "resolved"
            /\ ipc'[i].result.status = "ok"
            /\ "error" \notin DOMAIN ipc'[i].result
            /\ ipc'[i].result.database \in {"connected", "created"}
            /\ ipc'[i].result.database = "connected" <=> db.exists
            /\ ipc'[i].result.database_info.exists = db.exists
            /\ ipc'[i].result.database_info.size
                 = (IF db.exists THEN db.size ELSE 0)]_vars

\* With an existing storage file of zero bytes and the worker live, a
\* health-check returned 'connected', exists true, size 0.
C19_Witness ==
  /\ db = [exists |-> TRUE, size |-> 0]
  /\ \E i \in Ipcs : \E c \in Calls :
       /\ ipc[i].channel = "health-check" /\ ipc[i].state = "resolved"
       /\ calls[c].ipc = i /\ calls[c].pid # Null /\ proc[calls[c].pid] = "live"
       /\ ipc[i].result.status = "ok"
       /\ ipc[i].result.database = "connected"
       /\ ipc[i].result.database_info = [exists |-> TRUE, size |-> 0]

\* The result tells the renderer that the worker is alive.
ReportsAlive(result) ==
  \/ "python_backend" \in DOMAIN result /\ result.python_backend.python_alive
  \/ "python_alive" \in DOMAIN result /\ result.python_alive

\* C20: a result that reports python_alive = true is produced only while the
\* worker the call used is live: never for a worker that has exited or been
\* stopped before the call completed.
C20_AliveReportedOnlyForLiveWorker ==
  [][\A i \in Ipcs :
       (/\ ipc[i].state = "pending" /\ ipc'[i].state = "resolved"
        /\ ReportsAlive(ipc'[i].result))
         => \E c \in Calls :
              /\ calls[c].ipc = i
              /\ proc'[calls[c].pid] = "live" /\ kills'[calls[c].pid] = 0]_vars

\* A line of a file that is empty or all spaces.
BlankLine(line) ==
  Len(line) = 1 /\ \A k \in 1..Len(line[1]) : line[1][k] = " "

\* The lines of a file that are not blank, in file order.
RECURSIVE NonBlankLines(_)
NonBlankLines(lines) ==
  IF lines = <<>> THEN <<>>
  ELSE IF BlankLine(Head(lines)) THEN NonBlankLines(Tail(lines))
  ELSE <<Head(lines)>> \o NonBlankLines(Tail(lines))

\* A field as it is shown: without the spaces and quotes around it (no field
\* of these files has a space or a quote inside).
RECURSIVE Shown(_)
Shown(field) ==
  IF field = <<>> THEN <<>>
  ELSE IF Head(field) \in {" ", "\""} THEN Shown(Tail(field))
  ELSE <<Head(field)>> \o Shown(Tail(field))

\* C21: preview-file on an existing file with n >= 1 non-blank lines returns
\* the fields of the first line as columns, rows_total = n - 1, and
\* min(10, n - 1) preview rows, the k-th built from the k-th line after the
\* header.
C21_PreviewIsHeaderAndFirstTenRows ==
  \A i \in Ipcs :
    (/\ ipc[i].channel = "preview-file" /\ ipc[i].data # Undefined
     /\ ipc[i].data.filePath \in ExistingFiles
     /\ NonBlankLines(Files[ipc[i].data.filePath]) # <<>>)
      => LET lines == NonBlankLines(Files[ipc[i].data.filePath])
             n == Len(lines)
             r == ipc[i].result
         IN /\ ipc[i].state = "resolved"
            /\ "error" \notin DOMAIN r
            /\ r.columns = [j \in 1..Len(lines[1]) |-> Shown(lines[1][j])]
            /\ r.rows_total = n - 1
            /\ Len(r.preview) = (IF n - 1 < 10 THEN n - 1 ELSE 10)
            /\ \A k \in 1..Len(r.preview) :
                 \A j \in 1..Len(r.columns) :
                   r.preview[k][r.columns[j]]
                     = (IF j <= Len(lines[k + 1])
                        THEN Shown(lines[k + 1][j]) ELSE <<>>)

\* An 11-line file gave 10 rows and rows_total 10, and a header-only file no
\* row and rows_total 0.
C21_Witness ==
  \E i, j \in Ipcs :
    /\ ipc[i].data = [filePath |-> "lines11.csv"]
    /\ Len(ipc[i].result.preview) = 10 /\ ipc[i].result.rows_total = 10
    /\ ipc[j].data = [filePath |-> "lines01.csv"]
    /\ ipc[j].result.preview = <<>> /\ ipc[j].result.rows_total = 0

\* C22: preview-file on a path to no file resolves with an object that has
\* the error 'File does not exist' and nothing else, and reads no file.
C22_PreviewOfMissingFile ==
  \A i \in Ipcs :
    (/\ ipc[i].channel = "preview-file" /\ ipc[i].data # Undefined
     /\ ipc[i].data.filePath # "" /\ ipc[i].data.filePath \notin ExistingFiles)
      => /\ ipc[i].state = "resolved"
         /\ ipc[i].result = [error |-> "File does not exist"]
         /\ DOMAIN ipc[i].result \cap {"preview", "columns", "rows_total"} = {}
         /\ PreviewReads(ipc[i].data) = {}

C22_Witness ==
  \E i \in Ipcs :
    /\ ipc[i].channel = "preview-file" /\ ipc[i].state = "resolved"
    /\ ipc[i].data = [filePath |-> "missing.csv"]

\* C23: every name in the invoke whitelist has a handler on the host, so no
\* whitelisted invoke reaches the host and finds no handler.
C23_ListedChannelsHaveHandlers ==
  \A i \in Ipcs :
    (ipc[i].api = "invoke" /\ ipc[i].channel \in validChannels)
      => /\ ipc[i].channel \in registeredHandlers
         /\ ipc[i].state # "rejected"

\* text occurs in line as a run of consecutive characters.
Contains(line, text) ==
  \E k \in 0..(Len(line) - Len(text)) :
    SubSeq(line, k + 1, k + Len(text)) = text

\* C24: a request written to stdin is one frame: one line of text that
\* contains the operation name, ends with a newline and has no other newline
\* in it, whatever the action and the strings of the payload.
C24_RequestIsOneLine ==
  encoded # <<>>
    => /\ encoded[Len(encoded)] = Newline
       /\ \A k \in 1..(Len(encoded) - 1) : encoded[k] # Newline
       /\ Contains(encoded, <<Quote>> \o request.action \o <<Quote>>)
       /\ encoded[1] = "{" /\ encoded[Len(encoded) - 1] = "}"

\* An import-data request whose symbol has a newline in it has been written.
C24_Witness ==
  /\ encoded # <<>>
  /\ request.data # Undefined
  /\ \E k \in 1..Len(request.data.symbol) : request.data.symbol[k] = Newline

\* The sendToPython() calls boundary call i has made.
CallsOf(i) == { c \in Calls : calls[c].ipc = i }

\* The import-data requests written to any worker.
ImportFrames ==
  { f \in FramesWritten : stdin[f[1]][f[2]].action = "import-data" }

\* The argument names no file: no path, or a path to no file.
NoFile(data) ==
  data = Undefined \/ data.filePath = "" \/ data.filePath \notin ExistingFiles

C26_ResultIsPlaceholderOfAction ==
  /\ \A c \in Calls :
       calls[c].state = "resolved"
         => calls[c].result
              = [status |-> "ok", message |-> "Request sent to Python backend",
                 action |-> calls[c].action, python_alive |-> TRUE]
  /\ \A c, d \in Calls :
       (/\ calls[c].state = "resolved" /\ calls[d].state = "resolved"
        /\ calls[c].action = calls[d].action)
         => calls[c].result = calls[d].result

\* Two calls with the same action have resolved; the worker answered one of
\* them with an error response and printed nothing for the other.
C26_Witness ==
  \E c, d \in Calls :
    /\ calls[c].state = "resolved" /\ calls[d].state = "resolved"
    /\ calls[c].action = calls[d].action
    /\ \E r \in ResponsesTo(c) : r.payload.status = "error"
    /\ ResponsesTo(d) = {}

\* C27: the 'close' event of a worker clears the handle only when the handle
\* refers to that worker: a late 'close' of a worker stopped or replaced
\* earlier leaves the handle of a later-spawned live worker alone.
C27_CloseClearsOnlyItsOwnHandle ==
  [][\A p \in Pids :
       (proc[p] = "exited" /\ proc'[p] = "closed" /\ pythonProcess # p)
         => pythonProcess' = pythonProcess]_vars

\* C28: nothing is written to a worker before the start() that spawned it
\* has completed successfully: a call made during a startup wait writes only
\* when the wait has ended with the process confirmed alive.
C28_NoWriteBeforeStartCompleted ==
  [][\A p \in Pids :
       stdin'[p] # stdin[p]
         => \E s \in 1..Len(starts) :
              starts[s].pid = p /\ starts'[s].state = "resolved"]_vars

\* C29: requests are written in the order the sendToPython() calls were made:
\* when a later call's request has been written, every earlier call's has
\* been written before it (or that call has failed), also when the earlier
\* call had to start the worker first.
C29_WritesFollowCallOrder ==
  \A c, d \in Calls :
    (c < d /\ calls[d].pid # Null)
      => /\ calls[c].pid # Null \/ calls[c].state = "rejected"
         /\ calls[c].pid = calls[d].pid => calls[c].frame < calls[d].frame

\* C30: calls made concurrently while no worker is live spawn one worker for
\* all of them: a call made with no handle spawns one process and assigns the
\* handle in the same step, and a call made while an earlier call's start is
\* still waiting on its live worker spawns nothing and uses that worker.
C30_ConcurrentCallsSpawnOneWorker ==
  [][Len(calls') = Len(calls) + 1
       => /\ pythonProcess = Null
               => /\ pythonProcess' = NextPid
                  /\ proc' = [proc EXCEPT ![NextPid] = "live"]
          /\ pythonProcess # Null => proc' = proc
          /\ \A s \in 1..Len(starts) :
               (/\ starts[s].call # 0 /\ starts[s].state = "waiting"
                /\ proc[starts[s].pid] = "live" /\ kills[starts[s].pid] = 0)
                 => /\ proc' = proc
                    /\ pythonProcess' = starts[s].pid]_vars

====
